---- MODULE Spec2Model ----
(***************************************************************************)
(* InfoAPI (src/apis/info/api.ts): the twelve JSON-RPC bindings of the     *)
(* node's info endpoint.  Every binding builds its parameter object, makes *)
(* one call to JRPCAPI.callMethod and chains one `.then` callback that     *)
(* reads response.data["result"][<field>].                                 *)
(*                                                                         *)
(* Two asynchronous callers use the same InfoAPI object.  Each of them     *)
(* runs `await info.<operation>(...)` over and over, so that two           *)
(* invocations can be outstanding together and their responses can arrive  *)
(* in either order.  The other program that uses the object is the example *)
(* examples/info/getNodeIP.ts, which makes one call and ends.              *)
(***************************************************************************)
EXTENDS Integers, Sequences, FiniteSets, TLC

\* Total number of invocations made in one run.
MaxCalls == 3

\* The asynchronous flows that call into the one InfoAPI object.
Callers == {"A", "B"}

\* Argument strings handed to the bindings by their callers.
Strings == {"bc/X", "xchain"}

(***************************************************************************)
(* JavaScript values as they travel through the binding.                   *)
(***************************************************************************)
UndefinedV == [type |-> "undefined", str |-> "", num |-> 0, bool |-> FALSE, arr |-> <<>>]
StrV(s)    == [type |-> "string",    str |-> s,  num |-> 0, bool |-> FALSE, arr |-> <<>>]
NumV(n)    == [type |-> "number",    str |-> "", num |-> n, bool |-> FALSE, arr |-> <<>>]
BoolV(b)   == [type |-> "boolean",   str |-> "", num |-> 0, bool |-> b,     arr |-> <<>>]
ArrV(a)    == [type |-> "array",     str |-> "", num |-> 0, bool |-> FALSE, arr |-> a]

\* The keys the info endpoint puts in the result object of its responses.
ResultFields ==
    {"nodeID", "networkID", "success", "blockchainID", "version", "networkName", "peers"}

\* A result object: reading a key the object does not have yields undefined.
EmptyResult == [f \in ResultFields |-> UndefinedV]
ResultWith(field, v) == [f \in ResultFields |-> IF f = field THEN v ELSE UndefinedV]

\* response.data: an object with or without a "result" member.
DataWithResult(r) == [hasResult |-> TRUE, result |-> r]
DataNoResult      == [hasResult |-> FALSE, result |-> EmptyResult]

\* What the node can answer in a given result field.
FieldValues(field) ==
    CASE field = "nodeID"       -> {StrV("NodeID-1"), StrV("NodeID-2")}
      [] field = "networkID"    -> {NumV(1), NumV(12345)}
      [] field = "success"      -> {BoolV(TRUE), BoolV(FALSE)}
      [] field = "blockchainID" -> {StrV("2oYMBNV4"), StrV("11111111")}
      [] field = "version"      -> {StrV("avalanche/1.0.0"), StrV("avalanche/1.0.1")}
      [] field = "networkName"  -> {StrV("mainnet"), StrV("local")}
      [] field = "peers"        -> {ArrV(<<"1.2.3.4:9650", "5.6.7.8:9650">>),
                                    ArrV(<<"5.6.7.8:9650", "1.2.3.4:9650">>)}

\* Failures of the call primitive: a transport failure, and a JSON-RPC error
\* object that the transport surfaces as a failure.
Failures == {"ECONNREFUSED", "JSON-RPC error"}

\* The fault of reading a member of undefined.
TypeError == "TypeError"

\* The outcome of callMethod's promise.
NoReply         == [ok |-> FALSE, data |-> DataNoResult, failure |-> ""]
ReplyData(d)    == [ok |-> TRUE,  data |-> d,            failure |-> ""]
ReplyFailure(e) == [ok |-> FALSE, data |-> DataNoResult, failure |-> e]

\* The promise an operation returns to its caller.
Unsettled    == [state |-> "pending",   value |-> UndefinedV, reason |-> ""]
Fulfilled(v) == [state |-> "fulfilled", value |-> v,          reason |-> ""]
Rejected(e)  == [state |-> "rejected",  value |-> UndefinedV, reason |-> e]

\* The arguments of one callMethod call.  params is the object literal as its
\* set of <<key, value>> members; hasParams is FALSE when the argument is left out.
NoRequest == [method |-> "", hasParams |-> FALSE, params |-> {}]
Call(method, params) == [method |-> method, hasParams |-> TRUE,  params |-> params]
CallNoParams(method) == [method |-> method, hasParams |-> FALSE, params |-> {}]

VARIABLES
    phase,      \* per caller: "idle", "pending", "completed", "settled"
    op,         \* per caller: the operation it invoked
    args,       \* per caller: the arguments it passed
    request,    \* per caller: what its invocation handed to callMethod
    reply,      \* per caller: how callMethod's promise came out
    outcome,    \* per caller: the promise returned by the operation
    nInvoked,   \* invocations of operations so far
    nRequests,  \* calls of callMethod so far
    main        \* the example program: "start", "awaiting", "threw"; "none" when
                \* the program that runs is the client with its two callers

vars == <<phase, op, args, request, reply, outcome, nInvoked, nRequests, main>>


(***************************************************************************)
(* The members of class InfoAPI and, for each, the arguments it hands to   *)
(* callMethod and the member of the result object its callback returns.    *)
(***************************************************************************)
Operations ==
    {"getNodeID", "getNetworkID", "alias", "aliasChain", "getBlockchainID",
     "getNodeVersion", "getNetworkName", "lockProfile", "memoryProfile",
     "peers", "startCPUProfiler", "stopCPUProfiler"}

getNodeIDCall == Call("info.getNodeID", {})

getNetworkIDCall == Call("info.getNetworkID", {})

\* Variant: the two arguments bound to each other's key.
aliasCallSwapped(endpoint, alias) ==
    Call("info.alias", {<<"endpoint", alias>>, <<"alias", endpoint>>})

aliasCall(endpoint, alias) ==
    Call("info.alias", {<<"endpoint", endpoint>>, <<"alias", alias>>})

aliasChainCall(chain, alias) ==
    Call("info.aliasChain", {<<"chain", chain>>, <<"alias", alias>>})

getBlockchainIDCall(alias) == Call("info.getBlockchainID", {<<"alias", alias>>})

\* Variant: an empty parameter object is passed.
getNodeVersionCallWithParams == Call("info.getNodeVersion", {})

getNodeVersionCall == CallNoParams("info.getNodeVersion")

getNetworkNameCall == CallNoParams("info.getNetworkName")

lockProfileCall(filename) == Call("info.lockProfile", {<<"fileName", filename>>})

memoryProfileCall(filename) == Call("info.memoryProfile", {<<"fileName", filename>>})

peersCall == CallNoParams("info.peers")

startCPUProfilerCall(filename) ==
    Call("info.startCPUProfiler", {<<"fileName", filename>>})

stopCPUProfilerCall == CallNoParams("info.stopCPUProfiler")

\* The key each operation's callback reads in response.data["result"].
ResultField(o) ==
    CASE o = "getNodeID"        -> "nodeID"
      [] o = "getNetworkID"     -> "networkID"
      [] o = "alias"            -> "success"
      [] o = "aliasChain"       -> "success"
      [] o = "getBlockchainID"  -> "blockchainID"
      [] o = "getNodeVersion"   -> "version"
      [] o = "getNetworkName"   -> "networkName"
      [] o = "lockProfile"      -> "success"
      [] o = "memoryProfile"    -> "success"
      [] o = "peers"            -> "peers"
      [] o = "startCPUProfiler" -> "success"
      [] o = "stopCPUProfiler"  -> "success"

\* Variant: a falsy member is replaced by undefined (`... || undefined`).
ExtractFalsy(field, data) ==
    IF data.hasResult
      THEN IF data.result[field] = BoolV(FALSE)
             THEN Fulfilled(UndefinedV)
             ELSE Fulfilled(data.result[field])
      ELSE Rejected(TypeError)

\* Variant: the value returned for a method is remembered and served again.
ExtractCached(field, data) ==
    IF \E d \in Callers : phase[d] = "settled" /\ outcome[d].state = "fulfilled"
                          /\ ResultField(op[d]) = field
      THEN outcome[CHOOSE d \in Callers : phase[d] = "settled"
                                          /\ outcome[d].state = "fulfilled"
                                          /\ ResultField(op[d]) = field]
      ELSE IF data.hasResult THEN Fulfilled(data.result[field]) ELSE Rejected(TypeError)

\* response.data["result"][field]: reading a member of an absent result
\* object throws, reading an absent member of a result object yields undefined.
Extract(field, data) ==
    IF data.hasResult THEN Fulfilled(data.result[field]) ELSE Rejected(TypeError)

\* Variant: the response is kept in a field shared by all invocations.
ResponseOfShared(c) == reply["A"]

\* The response the callback of caller c's invocation is run with.
ResponseOf(c) == reply[c]

(***************************************************************************)
(* The call primitive.                                                     *)
(***************************************************************************)
\* this.callMethod(method, params): one outbound request.
callMethod(c, req) ==
    /\ request' = [request EXCEPT ![c] = req]
    /\ nRequests' = nRequests + 1

\* The bodies the node can answer an operation with: a result object holding
\* the operation's field, a result object without it, and no result object.
Responses(o) ==
    {DataWithResult(ResultWith(ResultField(o), v)) : v \in FieldValues(ResultField(o))}
        \cup {DataWithResult(EmptyResult), DataNoResult}

\* callMethod's promise resolves with a decoded response.
TransportResolve(c) ==
    /\ phase[c] = "pending"
    /\ \E d \in Responses(op[c]) : reply' = [reply EXCEPT ![c] = ReplyData(d)]
    /\ phase' = [phase EXCEPT ![c] = "completed"]
    /\ UNCHANGED <<op, args, request, outcome, nInvoked, nRequests, main>>

\* callMethod's promise rejects.
TransportReject(c) ==
    /\ phase[c] = "pending"
    /\ \E e \in Failures : reply' = [reply EXCEPT ![c] = ReplyFailure(e)]
    /\ phase' = [phase EXCEPT ![c] = "completed"]
    /\ UNCHANGED <<op, args, request, outcome, nInvoked, nRequests, main>>

(***************************************************************************)
(* The operations.  Caller c invokes the operation: the body runs up to    *)
(* the return of the chained promise.                                      *)
(***************************************************************************)
\* A caller of the client program is free to make its next invocation.
CanInvoke(c) ==
    /\ main = "none"
    /\ phase[c] = "idle"
    /\ nInvoked < MaxCalls

\* Caller c has entered operation o with arguments a and holds the promise
\* the operation returns.
Invoked(c, o, a) ==
    /\ nInvoked' = nInvoked + 1
    /\ op' = [op EXCEPT ![c] = o]
    /\ args' = [args EXCEPT ![c] = a]
    /\ phase' = [phase EXCEPT ![c] = "pending"]
    /\ UNCHANGED <<reply, outcome, main>>

getNodeID(c) ==
    /\ CanInvoke(c)
    /\ callMethod(c, getNodeIDCall)
    /\ Invoked(c, "getNodeID", <<>>)

getNetworkID(c) ==
    /\ CanInvoke(c)
    /\ callMethod(c, getNetworkIDCall)
    /\ Invoked(c, "getNetworkID", <<>>)

alias(c) ==
    /\ CanInvoke(c)
    /\ \E endpoint \in Strings, al \in Strings :
          /\ callMethod(c, aliasCall(endpoint, al))
          /\ Invoked(c, "alias", <<endpoint, al>>)

aliasChain(c) ==
    /\ CanInvoke(c)
    /\ \E chain \in Strings, al \in Strings :
          /\ callMethod(c, aliasChainCall(chain, al))
          /\ Invoked(c, "aliasChain", <<chain, al>>)

getBlockchainID(c) ==
    /\ CanInvoke(c)
    /\ \E al \in Strings :
          /\ callMethod(c, getBlockchainIDCall(al))
          /\ Invoked(c, "getBlockchainID", <<al>>)

getNodeVersion(c) ==
    /\ CanInvoke(c)
    /\ callMethod(c, getNodeVersionCall)
    /\ Invoked(c, "getNodeVersion", <<>>)

getNetworkName(c) ==
    /\ CanInvoke(c)
    /\ callMethod(c, getNetworkNameCall)
    /\ Invoked(c, "getNetworkName", <<>>)

lockProfile(c) ==
    /\ CanInvoke(c)
    /\ \E filename \in Strings :
          /\ callMethod(c, lockProfileCall(filename))
          /\ Invoked(c, "lockProfile", <<filename>>)

memoryProfile(c) ==
    /\ CanInvoke(c)
    /\ \E filename \in Strings :
          /\ callMethod(c, memoryProfileCall(filename))
          /\ Invoked(c, "memoryProfile", <<filename>>)

peers(c) ==
    /\ CanInvoke(c)
    /\ callMethod(c, peersCall)
    /\ Invoked(c, "peers", <<>>)

startCPUProfiler(c) ==
    /\ CanInvoke(c)
    /\ \E filename \in Strings :
          /\ callMethod(c, startCPUProfilerCall(filename))
          /\ Invoked(c, "startCPUProfiler", <<filename>>)

stopCPUProfiler(c) ==
    /\ CanInvoke(c)
    /\ callMethod(c, stopCPUProfilerCall)
    /\ Invoked(c, "stopCPUProfiler", <<>>)

(***************************************************************************)
(* Settling the promise the operation returned.                            *)
(***************************************************************************)
\* Variant: a callback that throws leaves the returned promise pending.
ThenCallbackHang(c) ==
    /\ phase[c] = "completed"
    /\ reply[c].ok
    /\ reply[c].data.hasResult
    /\ outcome' = [outcome EXCEPT ![c] = Fulfilled(reply[c].data.result[ResultField(op[c])])]
    /\ phase' = [phase EXCEPT ![c] = "settled"]
    /\ UNCHANGED <<op, args, request, reply, nInvoked, nRequests, main>>

\* callMethod's promise resolved: the `.then` callback runs.
ThenCallback(c) ==
    /\ phase[c] = "completed"
    /\ ResponseOf(c).ok
    /\ outcome' = [outcome EXCEPT ![c] = Extract(ResultField(op[c]), ResponseOf(c).data)]
    /\ phase' = [phase EXCEPT ![c] = "settled"]
    /\ UNCHANGED <<op, args, request, reply, nInvoked, nRequests, main>>

\* Variant: a rejection handler that swallows the failure.
PropagateRejectionSwallow(c) ==
    /\ phase[c] = "completed"
    /\ ~reply[c].ok
    /\ outcome' = [outcome EXCEPT ![c] = Fulfilled(UndefinedV)]
    /\ phase' = [phase EXCEPT ![c] = "settled"]
    /\ UNCHANGED <<op, args, request, reply, nInvoked, nRequests, main>>

\* Variant: a rejection handler that sends the request once more.
PropagateRejectionRetry(c) ==
    /\ phase[c] = "completed"
    /\ ~reply[c].ok
    /\ callMethod(c, request[c])
    /\ reply' = [reply EXCEPT ![c] = NoReply]
    /\ phase' = [phase EXCEPT ![c] = "pending"]
    /\ UNCHANGED <<op, args, outcome, nInvoked, main>>

\* callMethod's promise rejected: `.then` has no rejection handler, the
\* chained promise rejects with the same reason.
PropagateRejection(c) ==
    /\ phase[c] = "completed"
    /\ ~ResponseOf(c).ok
    /\ outcome' = [outcome EXCEPT ![c] = Rejected(ResponseOf(c).failure)]
    /\ phase' = [phase EXCEPT ![c] = "settled"]
    /\ UNCHANGED <<op, args, request, reply, nInvoked, nRequests, main>>

\* The caller's await returns or throws; the promise, the parameter object
\* and the response are dropped.
Observe(c) ==
    /\ phase[c] = "settled"
    /\ phase' = [phase EXCEPT ![c] = "idle"]
    /\ op' = [op EXCEPT ![c] = ""]
    /\ args' = [args EXCEPT ![c] = <<>>]
    /\ request' = [request EXCEPT ![c] = NoRequest]
    /\ reply' = [reply EXCEPT ![c] = NoReply]
    /\ outcome' = [outcome EXCEPT ![c] = Unsettled]
    /\ UNCHANGED <<nInvoked, nRequests, main>>

\* examples/info/getNodeIP.ts: main evaluates info.getNodeIP().  Calling a
\* member the object does not have throws before any request is made.
ExampleMain ==
    /\ main = "start"
    /\ IF "getNodeIP" \in Operations
         THEN main' = "awaiting" /\ nInvoked' = nInvoked + 1 /\ nRequests' = nRequests + 1
         ELSE main' = "threw" /\ UNCHANGED <<nInvoked, nRequests>>
    /\ UNCHANGED <<phase, op, args, request, reply, outcome>>

Init ==
    /\ phase = [c \in Callers |-> "idle"]
    /\ op = [c \in Callers |-> ""]
    /\ args = [c \in Callers |-> <<>>]
    /\ request = [c \in Callers |-> NoRequest]
    /\ reply = [c \in Callers |-> NoReply]
    /\ outcome = [c \in Callers |-> Unsettled]
    /\ nInvoked = 0
    /\ nRequests = 0
    /\ main \in {"none", "start"}

Next ==
    \/ \E c \in Callers : getNodeID(c)
    \/ \E c \in Callers : getNetworkID(c)
    \/ \E c \in Callers : alias(c)
    \/ \E c \in Callers : aliasChain(c)
    \/ \E c \in Callers : getBlockchainID(c)
    \/ \E c \in Callers : getNodeVersion(c)
    \/ \E c \in Callers : getNetworkName(c)
    \/ \E c \in Callers : lockProfile(c)
    \/ \E c \in Callers : memoryProfile(c)
    \/ \E c \in Callers : peers(c)
    \/ \E c \in Callers : startCPUProfiler(c)
    \/ \E c \in Callers : stopCPUProfiler(c)
    \/ \E c \in Callers : TransportResolve(c)
    \/ \E c \in Callers : TransportReject(c)
    \/ \E c \in Callers : ThenCallback(c)
    \/ \E c \in Callers : PropagateRejection(c)
    \/ \E c \in Callers : Observe(c)
    \/ ExampleMain

Spec == Init /\ [][Next]_vars

\* The event loop runs the reactions of a promise once it is resolved or rejected.
FairSpec ==
    /\ Spec
    /\ \A c \in Callers : WF_vars(ThenCallback(c)) /\ WF_vars(PropagateRejection(c))

(***************************************************************************)
(* Properties.                                                             *)
(***************************************************************************)

\* C1: each operation that takes arguments hands callMethod its fixed method
\* name and a parameter object with exactly the documented keys, bound to
\* exactly the values passed in.
C1_ParamsExact ==
    \A c \in Callers :
        phase[c] # "idle" =>
            /\ op[c] = "alias" =>
                   request[c] = [method |-> "info.alias", hasParams |-> TRUE,
                                 params |-> {<<"endpoint", args[c][1]>>, <<"alias", args[c][2]>>}]
            /\ op[c] = "aliasChain" =>
                   request[c] = [method |-> "info.aliasChain", hasParams |-> TRUE,
                                 params |-> {<<"chain", args[c][1]>>, <<"alias", args[c][2]>>}]
            /\ op[c] = "getBlockchainID" =>
                   request[c] = [method |-> "info.getBlockchainID", hasParams |-> TRUE,
                                 params |-> {<<"alias", args[c][1]>>}]
            /\ op[c] = "lockProfile" =>
                   request[c] = [method |-> "info.lockProfile", hasParams |-> TRUE,
                                 params |-> {<<"fileName", args[c][1]>>}]
            /\ op[c] = "memoryProfile" =>
                   request[c] = [method |-> "info.memoryProfile", hasParams |-> TRUE,
                                 params |-> {<<"fileName", args[c][1]>>}]
            /\ op[c] = "startCPUProfiler" =>
                   request[c] = [method |-> "info.startCPUProfiler", hasParams |-> TRUE,
                                 params |-> {<<"fileName", args[c][1]>>}]

\* alias("bc/X", "xchain") has been called.
C1_Witness ==
    \E c \in Callers :
        /\ phase[c] = "pending"
        /\ op[c] = "alias"
        /\ args[c] = <<"bc/X", "xchain">>
        /\ request[c].params = {<<"endpoint", "bc/X">>, <<"alias", "xchain">>}

\* C2: when callMethod resolves with a response whose result object holds the
\* operation's field, the operation resolves with exactly that field's value.
C2_FieldReturnedUnmodified ==
    \A c \in Callers :
        LET field == CASE op[c] = "getNodeID"       -> "nodeID"
                       [] op[c] = "getNetworkID"    -> "networkID"
                       [] op[c] = "getBlockchainID" -> "blockchainID"
                       [] op[c] = "getNodeVersion"  -> "version"
                       [] op[c] = "getNetworkName"  -> "networkName"
                       [] op[c] = "peers"           -> "peers"
                       [] OTHER                     -> "success"
        IN  (/\ phase[c] = "settled"
             /\ reply[c].ok
             /\ reply[c].data.hasResult
             /\ reply[c].data.result[field] # UndefinedV)
                => /\ outcome[c].state = "fulfilled"
                   /\ outcome[c].value = reply[c].data.result[field]
                   /\ outcome[c].reason = ""

\* peers() has resolved with the two addresses in the order of the response,
\* and an operation has resolved with a success flag of false.
C2_Witness ==
    \E c, d \in Callers :
        /\ phase[c] = "settled" /\ op[c] = "peers"
        /\ reply[c].data.result["peers"] = ArrV(<<"1.2.3.4:9650", "5.6.7.8:9650">>)
        /\ outcome[c] = Fulfilled(ArrV(<<"1.2.3.4:9650", "5.6.7.8:9650">>))
        /\ phase[d] = "settled" /\ op[d] = "stopCPUProfiler"
        /\ outcome[d] = Fulfilled(BoolV(FALSE))

\* C3: when callMethod fails, the operation's promise fails with that same
\* failure: it is not resolved with a value and the reason is not changed.
C3_FailurePropagated ==
    \A c \in Callers :
        (phase[c] = "settled" /\ ~reply[c].ok) =>
            /\ outcome[c].state = "rejected"
            /\ outcome[c].reason = reply[c].failure
            /\ outcome[c].value = UndefinedV

\* An operation has failed with the JSON-RPC error of its call.
C3_Witness ==
    \E c \in Callers :
        /\ phase[c] = "settled"
        /\ reply[c] = ReplyFailure("JSON-RPC error")
        /\ outcome[c] = Rejected("JSON-RPC error")

\* C4: when callMethod resolves with a response that lacks the operation's
\* field (a result object without it, or no result object), the operation
\* fails with a malformed-response error and never resolves with undefined.
C4_MalformedResponseSurfaced ==
    \A c \in Callers :
        (/\ phase[c] = "settled"
         /\ reply[c].ok
         /\ \/ ~reply[c].data.hasResult
            \/ reply[c].data.result[ResultField(op[c])] = UndefinedV)
            => /\ outcome[c].state = "rejected"
               /\ outcome[c].reason \notin Failures

\* C5: every invocation makes exactly one call to callMethod: the number of
\* requests equals the number of invocations, whatever the outcomes, and
\* every invocation under way has issued its request.
C5_OneRequestPerInvocation ==
    /\ nRequests = nInvoked
    /\ \A c \in Callers : phase[c] # "idle" => request[c].method # ""

\* Two invocations have been made, one of which has failed and one of which
\* was answered without the expected field.
C5_Witness ==
    /\ nInvoked = 2
    /\ phase["A"] = "settled" /\ outcome["A"].state = "rejected" /\ ~reply["A"].ok
    /\ phase["B"] = "settled" /\ reply["B"] = ReplyData(DataWithResult(EmptyResult))

\* C6: with two invocations under way together, each request carries the
\* arguments of its own invocation only and each invocation is settled from
\* its own response.
C6_NoCrossContamination ==
    \A c \in Callers :
        /\ phase[c] # "idle" =>
               /\ {kv[2] : kv \in request[c].params} = {args[c][i] : i \in 1..Len(args[c])}
               /\ Cardinality(request[c].params) = Len(args[c])
        /\ (phase[c] = "settled" /\ outcome[c].state = "fulfilled") =>
               /\ reply[c].ok
               /\ outcome[c].value = reply[c].data.result[ResultField(op[c])]
        /\ (phase[c] = "settled" /\ outcome[c].state = "rejected") =>
               \/ ~reply[c].ok /\ outcome[c].reason = reply[c].failure
               \/ reply[c].ok /\ ~reply[c].data.hasResult /\ outcome[c].reason = TypeError

\* alias and aliasChain are under way together with different arguments; the
\* response of B has arrived and B is settled from it while A is still waiting.
C6_Witness ==
    /\ phase["A"] = "pending" /\ op["A"] = "alias" /\ args["A"] = <<"bc/X", "xchain">>
    /\ phase["B"] = "settled" /\ op["B"] = "aliasChain" /\ args["B"] = <<"xchain", "bc/X">>
    /\ request["A"].params = {<<"endpoint", "bc/X">>, <<"alias", "xchain">>}
    /\ request["B"].params = {<<"chain", "xchain">>, <<"alias", "bc/X">>}
    /\ outcome["B"] = Fulfilled(BoolV(FALSE))

\* C7: an invocation whose request has completed is settled exactly once,
\* with a value or with a failure and never both; a step of one invocation
\* leaves the other invocation as it is; and an invocation whose request has
\* completed is eventually settled.
C7_SettledOnceIndependently ==
    /\ [][\A c \in Callers :
            /\ (phase[c] = "settled" /\ phase'[c] = "settled") => outcome'[c] = outcome[c]
            /\ phase[c] # "settled" => outcome[c] = Unsettled
            /\ \A d \in Callers \ {c} :
                   <<phase[c], outcome[c], reply[c]>>' # <<phase[c], outcome[c], reply[c]>>
                       => <<phase[d], outcome[d], reply[d], request[d]>>'
                              = <<phase[d], outcome[d], reply[d], request[d]>>]_vars
    /\ [](\A c \in Callers :
            phase[c] = "settled" =>
                \/ outcome[c].state = "fulfilled" /\ outcome[c].reason = ""
                \/ outcome[c].state = "rejected" /\ outcome[c].reason # ""
                                                 /\ outcome[c].value = UndefinedV)
    /\ \A c \in Callers : (phase[c] = "completed") ~> (phase[c] = "settled")

\* Two invocations were outstanding together; one has failed and the other
\* has resolved with a value.
C7_Witness ==
    /\ phase["A"] = "settled" /\ outcome["A"] = Rejected("ECONNREFUSED")
    /\ phase["B"] = "settled" /\ outcome["B"].state = "fulfilled"
    /\ outcome["B"].value # UndefinedV

\* C8: the binding offers getNodeIP: the call of the example program issues
\* a request and waits for its response.
C8_GetNodeIPOffered == main # "threw"

\* C9 (as stated): every operation hands callMethod a method name and a
\* parameter object; for the six operations without input the object is empty.
C9_AlwaysParamsObject ==
    \A c \in Callers :
        phase[c] # "idle" =>
            /\ request[c].method # ""
            /\ request[c].hasParams
            /\ Len(args[c]) = 0 => request[c].params = {}

\* C9 (amended): every operation hands callMethod its method name; getNodeID
\* and getNetworkID pass an empty parameter object, getNodeVersion,
\* getNetworkName, peers and stopCPUProfiler pass no parameter object, and
\* the six operations with arguments pass a parameter object that is not empty.
C9_ParamsObjectWhereBuilt ==
    \A c \in Callers :
        phase[c] # "idle" =>
            /\ request[c].method # ""
            /\ op[c] \in {"getNodeID", "getNetworkID"} =>
                   request[c].hasParams /\ request[c].params = {}
            /\ op[c] \in {"getNodeVersion", "getNetworkName", "peers", "stopCPUProfiler"} =>
                   ~request[c].hasParams
            /\ Len(args[c]) > 0 => request[c].hasParams /\ request[c].params # {}

\* getNodeVersion and getNodeID have both been called.
C9_Witness ==
    /\ phase["A"] # "idle" /\ op["A"] = "getNodeVersion" /\ ~request["A"].hasParams
    /\ phase["B"] # "idle" /\ op["B"] = "getNodeID" /\ request["B"].hasParams

\* C10: the binding keeps nothing between calls: the same operation with the
\* same arguments sends the same request whatever was invoked before, equal
\* responses give equal results, and the result of an invocation is taken
\* from its own response and not from an earlier one.
C10_Stateless ==
    \A c, d \in Callers :
        /\ (phase[c] # "idle" /\ phase[d] # "idle" /\ op[c] = op[d] /\ args[c] = args[d])
               => request[c] = request[d]
        /\ (phase[c] = "settled" /\ phase[d] = "settled" /\ op[c] = op[d]
            /\ reply[c] = reply[d]) => outcome[c] = outcome[d]
        /\ phase[c] = "settled" =>
               outcome[c] \in {Fulfilled(reply[c].data.result[f]) : f \in ResultFields}
                                  \cup {Rejected(reply[c].failure), Rejected(TypeError)}

\* getBlockchainID has been invoked a third time, with the arguments of an
\* invocation that is still settled, against another response: each of the
\* two has the value of its own response.
C10_Witness ==
    /\ nInvoked = 3
    /\ phase["A"] = "settled" /\ phase["B"] = "settled"
    /\ op["A"] = "getBlockchainID" /\ op["B"] = "getBlockchainID"
    /\ args["A"] = <<"xchain">> /\ args["B"] = <<"xchain">>
    /\ outcome["A"] = Fulfilled(StrV("2oYMBNV4"))
    /\ outcome["B"] = Fulfilled(StrV("11111111"))

====
